---- MODULE Spec2Model ----
(***************************************************************************)
(* Medicine tracker (src/app.py): the usage/restock ledger kept in the     *)
(* medicine_usage collection, the linear depletion estimator of the        *)
(* /restock view and the seasonal forecast walk of the /forecast view.     *)
(*                                                                         *)
(* Time is counted in ticks, TicksPerDay ticks to a day, so that a         *)
(* timestamp carries a time of day and timedelta.days is a floor.          *)
(* datetime.now() is the naive local wall clock: it advances, and it can   *)
(* be set back (end of daylight saving time, a clock adjustment).          *)
(* Prophet is a library outside the repository: fitting either raises or   *)
(* returns a forecast whose future rows are dated last observation + k     *)
(* days, k = 1..14, with predicted values the model does not constrain.    *)
(* Quantities are Python ints and ratios are kept exact.                   *)
(***************************************************************************)
EXTENDS Integers, Sequences, FiniteSets, TLC

VARIABLES
    log_collection,         \* db["medicine_usage"], in insertion order
    thresholds_collection,  \* medicines of db["medicine_thresholds"]
    now,                    \* the wall clock, in ticks
    route,                  \* the view whose response is on display
    summary,                \* /restock: medicine -> remaining, depletion_date
    stock_alerts,           \* /forecast: key -> alert
    forecast_result,        \* /forecast: medicine -> what Prophet gave for it
    walk                    \* /forecast: medicine -> the simulation's locals

vars == <<log_collection, thresholds_collection, now, route, summary,
          stock_alerts, forecast_result, walk>>

-----------------------------------------------------------------------------
(* Program constants *)

INITIAL_CAPACITY_ML == 100

\* make_future_dataframe(periods=14) and forecast_result[-14:]
Horizon == 14

\* resolution of the clock: ticks in one day of timedelta.days
TicksPerDay == 2

(* Bounds of the model *)

MaxLog == 4          \* events in the log, ledger and forecast runs
MaxNow == 3          \* last tick of the clock, ledger and forecast runs
MaxLogLinear == 3    \* events in the log, linear estimator runs
MaxDayLinear == 6    \* last day of the clock, linear estimator runs
MaxSetBack == 1      \* ticks the clock may be set back behind a timestamp

Medicines == {"betadine", "lidocaine"}
UsageQty == {45}
RestockQty == {50}
RestockMedicines == {"betadine"}
LinearMedicines == {"betadine"}
LinearUsageQty == {10}
YhatLevels == {-3, 5, 60}

-----------------------------------------------------------------------------
(* Helpers *)

EmptyDict == [k \in {} |-> 0]

Max(a, b) == IF a >= b THEN a ELSE b

\* timedelta.days of a difference of delta ticks: the floor of delta / day
Days(delta) == delta \div TicksPerDay

\* sum([entry['quantity'] for entry in entries])
RECURSIVE SumQuantity(_)
SumQuantity(entries) ==
    IF entries = <<>> THEN 0
    ELSE Head(entries).quantity + SumQuantity(Tail(entries))

\* collection.find({"medicine": medicine_name})
Find(collection, medicine_name) ==
    SelectSeq(collection, LAMBDA entry : entry.medicine = medicine_name)

-----------------------------------------------------------------------------
(* calculate_current_remaining *)

\* a variant that sums the whole collection, which the ledger property
\* must tell apart
current_remaining_unfiltered(collection, medicine_name) ==
    INITIAL_CAPACITY_ML - SumQuantity(collection)

current_remaining(collection, medicine_name) ==
    INITIAL_CAPACITY_ML - SumQuantity(Find(collection, medicine_name))

calculate_current_remaining(medicine_name) ==
    current_remaining(log_collection, medicine_name)

-----------------------------------------------------------------------------
(* predict_depletion *)

\* a variant that keeps the restocks among the usage entries
usage_entries_unfiltered(medicine) ==
    Find(log_collection, medicine)

\* log_collection.find({"medicine": medicine, "quantity": {"$gt": 0}})
usage_entries(medicine) ==
    SelectSeq(log_collection,
              LAMBDA entry : entry.medicine = medicine /\ entry.quantity > 0)

\* usage_entries.sort(key=timestamp); usage_entries[0]['timestamp']
first_usage_date(medicine) ==
    LET entries == usage_entries(medicine)
    IN  CHOOSE t \in {entries[i].timestamp : i \in DOMAIN entries} :
            \A i \in DOMAIN entries : t <= entries[i].timestamp

total_usage_since_first(medicine) ==
    SumQuantity(usage_entries(medicine))

\* (datetime.now() - first_usage_date).days, 1 when that is 0
time_span_days(medicine) ==
    LET days == Days(now - first_usage_date(medicine))
    IN  IF days = 0 THEN 1 ELSE days

\* daily_avg_usage = total_usage_since_first / time_span_days, as a ratio
daily_avg_usage(medicine) ==
    [num |-> total_usage_since_first(medicine), den |-> time_span_days(medicine)]

\* daily_avg_usage > 0
RatioPositive(r) ==
    (r.num > 0 /\ r.den > 0) \/ (r.num < 0 /\ r.den < 0)

\* days_to_depletion = current_remaining / daily_avg_usage, as a ratio with a
\* positive denominator (taken only where daily_avg_usage > 0)
days_to_depletion(medicine, remaining) ==
    LET avg == daily_avg_usage(medicine)
    IN  IF avg.num > 0
        THEN [num |-> remaining * avg.den, den |-> avg.num]
        ELSE [num |-> -(remaining * avg.den), den |-> -avg.num]

\* a variant that subtracts the days to depletion from now
depletion_date_backwards(medicine, remaining) ==
    LET d == days_to_depletion(medicine, remaining)
    IN  (now * d.den - d.num * TicksPerDay) \div (TicksPerDay * d.den)

\* (datetime.now() + timedelta(days=days_to_depletion)).strftime("%Y-%m-%d"):
\* the day of the instant now + num/den days, the ratio kept exact
depletion_date(medicine, remaining) ==
    LET d == days_to_depletion(medicine, remaining)
    IN  (now * d.den + d.num * TicksPerDay) \div (TicksPerDay * d.den)

Estimate(kind, day) == [kind |-> kind, day |-> day]

NoUsageData == Estimate("N/A - No usage data", 0)
AlreadyDepleted == Estimate("Already Depleted", 0)
NoAverageUsage == Estimate("N/A - No average usage or sufficient stock", 0)

\* a variant without the "Already Depleted" branch
predict_depletion_unchecked(medicine, remaining) ==
    IF usage_entries(medicine) = <<>> THEN NoUsageData
    ELSE IF RatioPositive(daily_avg_usage(medicine))
         THEN Estimate("date", depletion_date(medicine, remaining))
         ELSE NoAverageUsage

predict_depletion(medicine, remaining) ==
    IF usage_entries(medicine) = <<>> THEN NoUsageData
    ELSE IF RatioPositive(daily_avg_usage(medicine))
         THEN IF days_to_depletion(medicine, remaining).num < 0
              THEN AlreadyDepleted
              ELSE Estimate("date", depletion_date(medicine, remaining))
         ELSE NoAverageUsage

-----------------------------------------------------------------------------
(* forecast *)

Alert(kind, days) == [kind |-> kind, days |-> days]

NoUsageInfo == Alert("No sufficient usage data to generate forecasts.", 0)
InsufficientData == Alert("Insufficient usage data for forecasting", 0)
NeededIn(days) == Alert("needed in N days", days)
AlreadyDepletedAlert == Alert("already depleted", 0)
SufficientForNow == Alert("sufficient for now", 0)
ForecastError == Alert("Forecast error", 0)

\* what model.fit / model.predict does for one medicine: it raises, or it
\* returns yhat for the 14 future rows: a level on every day, or a negative
\* prediction on the odd days and a positive one on the even days
FitFailure == [ok |-> FALSE, yhat |-> <<>>]
Forecasts ==
    {[ok |-> TRUE, yhat |-> [k \in 1..Horizon |-> level]] : level \in YhatLevels}
        \cup {[ok |-> TRUE,
               yhat |-> [k \in 1..Horizon |-> IF k % 2 = 1 THEN -3 ELSE 5]]}
Outcomes == {FitFailure} \cup Forecasts

\* usage_data: the entries of all_logs with quantity > 0
usage_data(all_logs) ==
    SelectSeq(all_logs, LAMBDA entry : entry.quantity > 0)

\* df_all_usage['medicine'].unique(): in order of first appearance
RECURSIVE unique(_)
unique(entries) ==
    IF entries = <<>> THEN <<>>
    ELSE LET rest == unique(SubSeq(entries, 1, Len(entries) - 1))
             med == entries[Len(entries)].medicine
         IN  IF \E i \in DOMAIN rest : rest[i] = med THEN rest
             ELSE Append(rest, med)

\* med_df = df_all_usage[df_all_usage['medicine'] == med]
med_df(all_logs, med) == Find(usage_data(all_logs), med)

\* the ds of future row k: the last observation of med_df plus k days
future_ds(all_logs, med, k) ==
    LET df == med_df(all_logs, med)
        last_date == CHOOSE t \in {df[i].timestamp : i \in DOMAIN df} :
                         \A i \in DOMAIN df : t >= df[i].timestamp
    IN  last_date + k * TicksPerDay

\* a variant without the clamp
predicted_usage_unclamped(yhat) == yhat

\* predicted_usage = max(row['yhat'], 0)
predicted_usage(yhat) == Max(yhat, 0)

\* the loop over forecast_result[-14:]: sims is simulated_remaining after
\* each row walked, row the index of the row the loop broke at (0: none)
RECURSIVE simulate(_, _, _, _)
simulate(yhat, k, simulated_remaining, sims) ==
    IF k > Horizon THEN [sims |-> sims, row |-> 0]
    ELSE LET next == simulated_remaining - predicted_usage(yhat[k])
         IN  IF next <= 0
             THEN [sims |-> Append(sims, next), row |-> k]
             ELSE simulate(yhat, k + 1, next, Append(sims, next))

\* days_until_depletion = (depletion_date - datetime.today()).days
days_until_depletion(all_logs, med, row) ==
    Days(future_ds(all_logs, med, row) - now)

\* the body of the try block for one medicine whose fit succeeded
try_body(all_logs, med, yhat) ==
    LET current_remaining_stock == calculate_current_remaining(med)
        w == simulate(yhat, 1, current_remaining_stock, <<>>)
        depletion_day == IF w.row = 0 THEN 0
                         ELSE days_until_depletion(all_logs, med, w.row)
        alert == IF w.row # 0 /\ depletion_day >= 0 THEN NeededIn(depletion_day)
                 ELSE IF w.row # 0 THEN AlreadyDepletedAlert
                 ELSE SufficientForNow
    IN  [alert |-> alert,
         walk |-> [start |-> current_remaining_stock, sims |-> w.sims,
                   row |-> w.row, depletion_day |-> depletion_day]]

\* a variant in which the failure leaves the loop and the view
except_reraise(acc, med) ==
    [acc EXCEPT !.aborted = TRUE]

\* except Exception as e: stock_alerts[med] = f"Forecast error: {str(e)}"
except_clause(acc, med) ==
    [acc EXCEPT !.stock_alerts = (med :> ForecastError) @@ @]

\* if med_df.empty or len(med_df) < 2
too_few(df) == Len(df) < 2

\* one iteration of the loop over the medicines
iteration(acc, all_logs, med, outcomes) ==
    IF too_few(med_df(all_logs, med))
    THEN [acc EXCEPT !.stock_alerts = (med :> InsufficientData) @@ @]
    ELSE LET outcome == outcomes[med]
             fitted == [acc EXCEPT !.forecast_result = (med :> outcome) @@ @]
         IN  IF ~outcome.ok THEN except_clause(fitted, med)
             ELSE LET r == try_body(all_logs, med, outcome.yhat)
                  IN  [fitted EXCEPT !.stock_alerts = (med :> r.alert) @@ @,
                                     !.walk = (med :> r.walk) @@ @]

RECURSIVE medicine_loop(_, _, _, _)
medicine_loop(acc, all_logs, meds, outcomes) ==
    IF meds = <<>> \/ acc.aborted THEN acc
    ELSE medicine_loop(iteration(acc, all_logs, Head(meds), outcomes),
                       all_logs, Tail(meds), outcomes)

\* the whole view, given what Prophet does for each medicine
forecast_run(all_logs, outcomes) ==
    LET empty == [stock_alerts |-> EmptyDict, forecast_result |-> EmptyDict,
                  walk |-> EmptyDict, aborted |-> FALSE]
    IN  IF usage_data(all_logs) = <<>>
        THEN [empty EXCEPT !.stock_alerts = ("info" :> NoUsageInfo)]
        ELSE LET done == medicine_loop(empty, all_logs,
                                       unique(usage_data(all_logs)), outcomes)
             IN  IF done.aborted
                 THEN [done EXCEPT !.stock_alerts = EmptyDict]
                 ELSE done

\* the medicines the loop calls Prophet for
FittedMedicines(all_logs) ==
    LET meds == unique(usage_data(all_logs))
    IN  {meds[i] : i \in {j \in DOMAIN meds : ~too_few(med_df(all_logs, meds[j]))}}

-----------------------------------------------------------------------------
(* The state after start-up: DEFAULT_MEDICINE_THRESHOLDS is empty *)

Init ==
    /\ log_collection = <<>>
    /\ thresholds_collection = {}
    /\ now = 0
    /\ route = "/"
    /\ summary = EmptyDict
    /\ stock_alerts = EmptyDict
    /\ forecast_result = EmptyDict
    /\ walk = EmptyDict

\* no view is on display
NoResponse ==
    /\ route' = "/"
    /\ summary' = EmptyDict
    /\ stock_alerts' = EmptyDict
    /\ forecast_result' = EmptyDict
    /\ walk' = EmptyDict

Entry(medicine, quantity) ==
    [medicine |-> medicine, quantity |-> quantity, timestamp |-> now]

\* POST /log_usage: match says whether the text matched the pattern,
\* medicine and quantity are its two groups
log_usage(match, medicine, quantity) ==
    /\ route = "/"
    /\ IF match
       THEN /\ thresholds_collection' = thresholds_collection \cup {medicine}
            /\ log_collection' = Append(log_collection, Entry(medicine, quantity))
       ELSE UNCHANGED <<thresholds_collection, log_collection>>
    /\ NoResponse
    /\ UNCHANGED now

\* /restock_medicine: a POST records the restock, a GET only shows the form
restock_medicine(method, med, quantity) ==
    /\ route = "/"
    /\ IF method = "POST"
       THEN log_collection' = Append(log_collection, Entry(med, -quantity))
       ELSE UNCHANGED log_collection
    /\ NoResponse
    /\ UNCHANGED <<thresholds_collection, now>>

\* GET /restock
restock ==
    /\ route = "/"
    /\ route' = "/restock"
    /\ summary' = [med \in thresholds_collection |->
                      [remaining |-> calculate_current_remaining(med),
                       depletion_date |->
                           predict_depletion(med, calculate_current_remaining(med))]]
    /\ stock_alerts' = EmptyDict
    /\ forecast_result' = EmptyDict
    /\ walk' = EmptyDict
    /\ UNCHANGED <<log_collection, thresholds_collection, now>>

\* GET /forecast
forecast ==
    /\ route = "/"
    /\ \E outcomes \in [FittedMedicines(log_collection) -> Outcomes] :
         LET run == forecast_run(log_collection, outcomes)
         IN  /\ route' = "/forecast"
             /\ stock_alerts' = run.stock_alerts
             /\ forecast_result' = run.forecast_result
             /\ walk' = run.walk
             /\ summary' = EmptyDict
             /\ UNCHANGED <<log_collection, thresholds_collection, now>>

\* the rendered view has been sent: requests are served one at a time
Respond ==
    /\ route # "/"
    /\ NoResponse
    /\ UNCHANGED <<log_collection, thresholds_collection, now>>

\* the wall clock advances
Tick ==
    /\ route = "/"
    /\ now' = now + 1
    /\ NoResponse
    /\ UNCHANGED <<log_collection, thresholds_collection>>

\* the wall clock is set back
ClockSetBack ==
    /\ route = "/"
    /\ now > 0
    /\ now' = now - 1
    /\ NoResponse
    /\ UNCHANGED <<log_collection, thresholds_collection>>

-----------------------------------------------------------------------------
(* The ledger and the forecast view, two medicines; the clock only         *)
(* advances here                                                            *)

Next ==
    \/ /\ Len(log_collection) < MaxLog
       /\ \E medicine \in Medicines, quantity \in UsageQty :
              log_usage(TRUE, medicine, quantity)
    \/ /\ Len(log_collection) < MaxLog
       /\ \E med \in RestockMedicines, quantity \in RestockQty :
              restock_medicine("POST", med, quantity)
    \/ \E medicine \in Medicines, quantity \in UsageQty :
           log_usage(FALSE, medicine, quantity)
    \/ \E med \in RestockMedicines, quantity \in RestockQty :
           restock_medicine("GET", med, quantity)
    \/ restock
    \/ forecast
    \/ Respond
    \/ now < MaxNow /\ Tick

Spec == Init /\ [][Next]_vars

(* The linear estimator, one medicine over a week; the clock advances and   *)
(* is set back                                                              *)

\* the clock is not set back further than MaxSetBack ticks behind an event
SetBackBounded ==
    \A i \in DOMAIN log_collection :
        log_collection[i].timestamp - (now - 1) <= MaxSetBack

NextLinear ==
    \/ /\ Len(log_collection) < MaxLogLinear
       /\ \E medicine \in LinearMedicines, quantity \in LinearUsageQty :
              log_usage(TRUE, medicine, quantity)
    \/ /\ Len(log_collection) < MaxLogLinear
       /\ \E med \in LinearMedicines, quantity \in RestockQty :
              restock_medicine("POST", med, quantity)
    \/ restock
    \/ Respond
    \/ now < MaxDayLinear * TicksPerDay /\ Tick
    \/ SetBackBounded /\ ClockSetBack

SpecLinear == Init /\ [][NextLinear]_vars

-----------------------------------------------------------------------------
(* Properties *)

\* the sum of the quantities of the events of log at the indices of S
RECURSIVE QuantityOver(_, _)
QuantityOver(events, S) ==
    IF S = {} THEN 0
    ELSE LET i == CHOOSE j \in S : TRUE
         IN  events[i].quantity + QuantityOver(events, S \ {i})

EventsOf(events, medicine) ==
    {i \in DOMAIN events : events[i].medicine = medicine}

Permuted(events, p) == [i \in DOMAIN events |-> events[p[i]]]

\* C1: after any sequence of usage and restock events, the remaining stock
\* of a medicine is the capacity minus the sum of the quantities of its own
\* events: the capacity when it has none, the same for every order of the
\* log, and the same with the other medicines' events taken away.
C1_ReducerCorrect ==
    route = "/" =>
        \A m \in Medicines :
            /\ calculate_current_remaining(m) =
                   INITIAL_CAPACITY_ML
                       - QuantityOver(log_collection, EventsOf(log_collection, m))
            /\ EventsOf(log_collection, m) = {} =>
                   calculate_current_remaining(m) = INITIAL_CAPACITY_ML
            /\ \A p \in Permutations(DOMAIN log_collection) :
                   current_remaining(Permuted(log_collection, p), m) =
                       calculate_current_remaining(m)
            /\ current_remaining(Find(log_collection, m), m) =
                   calculate_current_remaining(m)

\* a usage and a restock of one medicine, and a usage of the other
C1_Witness ==
    /\ route = "/"
    /\ \E i, j, k \in DOMAIN log_collection :
           /\ log_collection[i].medicine = "betadine"
           /\ log_collection[i].quantity > 0
           /\ log_collection[j].medicine = "betadine"
           /\ log_collection[j].quantity < 0
           /\ log_collection[k].medicine = "lidocaine"
           /\ i < j
    /\ calculate_current_remaining("betadine") = 105
    /\ calculate_current_remaining("lidocaine") = 55

\* the medicines with a usage observation in the log
MedicinesUsed ==
    {log_collection[i].medicine :
         i \in {j \in DOMAIN log_collection : log_collection[j].quantity > 0}}

\* every medicine the system has heard of
KnownMedicines ==
    thresholds_collection \cup
        {log_collection[i].medicine : i \in DOMAIN log_collection}

\* the number of usage observations of a medicine
Observations(m) ==
    Cardinality({i \in DOMAIN log_collection :
                     /\ log_collection[i].medicine = m
                     /\ log_collection[i].quantity > 0})

\* the clamped predicted usage of the first k future days, added up
RECURSIVE Cumulative(_, _)
Cumulative(yhat, k) ==
    IF k = 0 THEN 0
    ELSE Cumulative(yhat, k - 1) + (IF yhat[k] > 0 THEN yhat[k] ELSE 0)

\* the first future day at which the cumulative usage reaches the stock
Crosses(yhat, stock, k) ==
    /\ Cumulative(yhat, k) >= stock
    /\ \A j \in 1..(k - 1) : Cumulative(yhat, j) < stock

\* C2: with 10 remaining and 5 predicted on each of the first 3 future days
\* the walk crosses on day 2 and the alert is "needed in 2 days"; in general
\* the N of "needed in N days" is the index of the first future day at which
\* the cumulative clamped prediction reaches the remaining stock, whatever
\* the age of the last observation and the time of day of the call.
C2_NeededInCrossingIndex ==
    route = "/forecast" =>
        \A m \in DOMAIN walk :
            LET yhat == forecast_result[m].yhat
            IN  /\ (walk[m].start = 10 /\ \A k \in 1..3 : yhat[k] = 5) =>
                       /\ walk[m].row = 2
                       /\ stock_alerts[m] = NeededIn(2)
                /\ stock_alerts[m].kind = NeededIn(0).kind =>
                       Crosses(yhat, walk[m].start, stock_alerts[m].days)

\* C3: a batch run reports "insufficient data" for every known medicine with
\* one usage observation and for every known medicine with none, and fits
\* no model for it. (The page-wide notice of a run over a log without any
\* usage is taken as that report for each medicine.)
C3_InsufficientDataReported ==
    route = "/forecast" =>
        \A m \in KnownMedicines :
            Observations(m) < 2 =>
                /\ \/ /\ m \in DOMAIN stock_alerts
                      /\ stock_alerts[m] = InsufficientData
                   \/ /\ MedicinesUsed = {}
                      /\ stock_alerts = ("info" :> NoUsageInfo)
                /\ m \notin DOMAIN forecast_result

\* C4: a medicine is reported "already depleted" only if its remaining stock
\* was at or below zero when the walk started.
C4_DepletedOnlyWithoutStock ==
    route = "/forecast" =>
        \A m \in DOMAIN walk :
            stock_alerts[m] = AlreadyDepletedAlert => walk[m].start <= 0

\* C5: each predicted usage is clamped to at least 0 before it is subtracted,
\* so simulated_remaining never increases from one day to the next, and a
\* forecast negative on all 14 days with a positive stock finds no crossing
\* and yields "sufficient for now".
C5_ClampedWalk ==
    route = "/forecast" =>
        \A m \in DOMAIN walk :
            LET yhat == forecast_result[m].yhat
                before(i) == IF i = 1 THEN walk[m].start ELSE walk[m].sims[i - 1]
            IN  /\ \A i \in DOMAIN walk[m].sims :
                       /\ walk[m].sims[i] <= before(i)
                       /\ before(i) - walk[m].sims[i] =
                              (IF yhat[i] < 0 THEN 0 ELSE yhat[i])
                /\ (walk[m].start > 0 /\ \A k \in 1..Horizon : yhat[k] < 0) =>
                       /\ walk[m].row = 0
                       /\ Len(walk[m].sims) = Horizon
                       /\ stock_alerts[m] = SufficientForNow

\* a walk over 14 negative predictions, from a positive stock
C5_Witness ==
    /\ route = "/forecast"
    /\ \E m \in DOMAIN walk :
           /\ walk[m].start = 10
           /\ \A k \in 1..Horizon : forecast_result[m].yhat[k] < 0
           /\ Len(walk[m].sims) = Horizon
           /\ stock_alerts[m] = SufficientForNow

\* C6: a failure of the fit for medicine A becomes the alert of A alone: the
\* run completes, every other medicine with usage data has its alert, and
\* that alert is the one of the run in which the fit for A succeeds.
C6_FailureIsolated ==
    route = "/forecast" =>
        \A a \in DOMAIN forecast_result :
            ~forecast_result[a].ok =>
                /\ a \in DOMAIN stock_alerts
                /\ stock_alerts[a] = ForecastError
                /\ \A b \in MedicinesUsed \ {a} :
                       /\ b \in DOMAIN stock_alerts
                       /\ \A o \in Forecasts :
                              forecast_run(log_collection,
                                           (a :> o) @@ forecast_result)
                                  .stock_alerts[b] = stock_alerts[b]

\* the fit fails for the first medicine, the second gets a forecast alert
C6_Witness ==
    /\ route = "/forecast"
    /\ "betadine" \in DOMAIN forecast_result
    /\ ~forecast_result["betadine"].ok
    /\ stock_alerts["betadine"] = ForecastError
    /\ unique(usage_data(log_collection)) = <<"betadine", "lidocaine">>
    /\ "lidocaine" \in DOMAIN walk
    /\ stock_alerts["lidocaine"].kind = NeededIn(0).kind

\* the usage events of a medicine, their total and their earliest timestamp
UsageOf(m) ==
    {i \in DOMAIN log_collection :
         /\ log_collection[i].medicine = m
         /\ log_collection[i].quantity > 0}

TotalUsed(m) == QuantityOver(log_collection, UsageOf(m))

FirstUsed(m) ==
    CHOOSE t \in {log_collection[i].timestamp : i \in UsageOf(m)} :
        \A i \in UsageOf(m) : t <= log_collection[i].timestamp

\* C7: the divisor time_span_days is max(1, whole days between now and the
\* first usage), never 0 and never below 1, for every log with a usage event.
C7_TimeSpanFloor ==
    route = "/restock" =>
        \A m \in DOMAIN summary :
            UsageOf(m) # {} =>
                /\ time_span_days(m) = Max(1, Days(now - FirstUsed(m)))
                /\ time_span_days(m) >= 1

\* C8: restocks reduce nothing but the remaining stock: the daily rate is the
\* sum of the positive quantities over the whole days from the first usage
\* to now (0 days counting as 1), and the result is the date of now +
\* remaining / rate (stated where the first usage is not later than now and
\* the remaining stock is not negative, the cases in which a date results);
\* +10 at day 0, +10 at day 5 and -50 at day 6, seen at day 6, leave 130, a
\* rate of 20/6 and the date of day 6 + 39.
C8_RestocksOnlyRaiseStock ==
    route = "/restock" =>
        \A m \in DOMAIN summary :
            LET R == summary[m].remaining
                D == Days(now - FirstUsed(m))
                P == TotalUsed(m)
            IN  /\ R = INITIAL_CAPACITY_ML
                           - QuantityOver(log_collection,
                                          EventsOf(log_collection, m))
                /\ (UsageOf(m) # {} /\ D >= 0 /\ R >= 0) =>
                       /\ daily_avg_usage(m) = [num |-> P, den |-> Max(1, D)]
                       /\ summary[m].depletion_date.kind = "date"
                       \* day = floor(now + (R * max(1, D) / P) days)
                       /\ summary[m].depletion_date.day =
                              (now * P + R * Max(1, D) * TicksPerDay)
                                  \div (P * TicksPerDay)
                /\ ( /\ now = 6 * TicksPerDay
                     /\ log_collection =
                            << [medicine |-> m, quantity |-> 10,
                                timestamp |-> 0],
                               [medicine |-> m, quantity |-> 10,
                                timestamp |-> 5 * TicksPerDay],
                               [medicine |-> m, quantity |-> -50,
                                timestamp |-> 6 * TicksPerDay] >> ) =>
                       /\ R = 130
                       /\ daily_avg_usage(m) = [num |-> 20, den |-> 6]
                       /\ summary[m].depletion_date = Estimate("date", 6 + 39)

\* the scenario of the claim, on display
C8_Witness ==
    /\ route = "/restock"
    /\ now = 6 * TicksPerDay
    /\ log_collection =
           << [medicine |-> "betadine", quantity |-> 10, timestamp |-> 0],
              [medicine |-> "betadine", quantity |-> 10,
               timestamp |-> 5 * TicksPerDay],
              [medicine |-> "betadine", quantity |-> -50,
               timestamp |-> 6 * TicksPerDay] >>
    /\ summary["betadine"] =
           [remaining |-> 130, depletion_date |-> Estimate("date", 45)]

\* the remaining stocks the estimator is tried on
TestRemaining == {-1, 0, 1, 40, 130}

\* C9: for a fixed log and a fixed now with a positive daily rate, a larger
\* current_remaining never gives an earlier date, and never "already
\* depleted" where the smaller one gives a date.
C9_MonotoneInRemaining ==
    route = "/restock" =>
        \A m \in DOMAIN summary :
            (UsageOf(m) # {} /\ RatioPositive(daily_avg_usage(m))) =>
                LET tried == TestRemaining \cup {summary[m].remaining}
                IN  \A r1 \in tried :
                        LET e1 == predict_depletion(m, r1)
                        IN  \A r2 \in {r \in tried : r1 < r} :
                                LET e2 == predict_depletion(m, r2)
                                IN  /\ (e1.kind = "date" /\ e2.kind = "date")
                                           => e1.day <= e2.day
                                    /\ e1.kind = "date" => e2.kind = "date"

\* a date on display, and a later one for a larger remaining stock
C9_Witness ==
    /\ route = "/restock"
    /\ \E m \in DOMAIN summary :
           /\ summary[m].depletion_date.kind = "date"
           /\ summary[m].remaining = 80
           /\ predict_depletion(m, 130).kind = "date"
           /\ predict_depletion(m, 130).day > summary[m].depletion_date.day

\* C10: with at least one usage event, a negative current_remaining and a
\* positive daily average give "already depleted", never a date.
C10_NegativeIsDepleted ==
    route = "/restock" =>
        \A m \in DOMAIN summary :
            (UsageOf(m) # {} /\ RatioPositive(daily_avg_usage(m))) =>
                /\ summary[m].remaining < 0 =>
                       summary[m].depletion_date = AlreadyDepleted
                /\ \A r \in TestRemaining :
                       r < 0 => predict_depletion(m, r) = AlreadyDepleted

\* three usages of 45 have taken the stock below zero
C10_Witness ==
    /\ route = "/restock"
    /\ \E m \in DOMAIN summary :
           /\ summary[m].remaining = -35
           /\ summary[m].depletion_date = AlreadyDepleted

====
